---- MODULE Spec2Model ----
(***************************************************************************)
(* Model of src/fenlei.py: the transform -> partition -> export pipeline   *)
(* transform_and_process and the Streamlit caller that runs it.            *)
(*                                                                         *)
(* Text is modelled as a sequence of characters, each character a string   *)
(* token.  The module's column names and the fallback prefix are Chinese   *)
(* in the source; here each name is written in pinyin and each Chinese     *)
(* character of a file name is one token (for example "wei4").             *)
(***************************************************************************)
EXTENDS Integers, Sequences, FiniteSets, TLC

\* ------------------------------------------------------------------ bounds

\* Largest number of rows of a source sheet whose grouping values vary.
MaxRows == 3

\* ------------------------------------------------------------- cell values

\* A missing cell (NaN / None), a number, a text, a timestamp.
Missing == [t |-> "nan", v |-> 0]
Num(n) == [t |-> "num", v |-> n]
Txt(s) == [t |-> "str", v |-> s]
Ts(y, mo, d, h, mi) == [t |-> "ts", v |-> <<y, mo, d, h, mi>>]

\* pd.notna
notna(x) == x.t # "nan"

DigitChars == <<"0", "1", "2", "3", "4", "5", "6", "7", "8", "9">>

RECURSIVE IntToStr(_)
\* str() of a non-negative integer: its decimal digits.
IntToStr(n) ==
    IF n < 10 THEN <<DigitChars[n + 1]>>
    ELSE IntToStr(n \div 10) \o <<DigitChars[(n % 10) + 1]>>

RECURSIVE ZeroPad(_, _)
\* A digit string padded with zeros on the left to a width (%m, %d, %H, %M).
ZeroPad(s, w) == IF Len(s) >= w THEN s ELSE ZeroPad(<<"0">> \o s, w)

\* time_val.strftime('%Y/%m/%d %H:%M')
strftime(x) ==
    Txt(ZeroPad(IntToStr(x.v[1]), 4) \o <<"/">> \o ZeroPad(IntToStr(x.v[2]), 2)
        \o <<"/">> \o ZeroPad(IntToStr(x.v[3]), 2) \o <<" ">>
        \o ZeroPad(IntToStr(x.v[4]), 2) \o <<":">> \o ZeroPad(IntToStr(x.v[5]), 2))

\* str(group_value)
str(x) ==
    CASE x.t = "str" -> x.v
      [] x.t = "num" -> IntToStr(x.v)
      [] x.t = "ts" -> strftime(x).v
      [] OTHER -> <<"n", "a", "n">>

\* The value of one decimal digit character.
DigitValue(c) == CHOOSE d \in 0..9 : DigitChars[d + 1] = c

RECURSIVE ParseDigits(_)
\* The number a non-empty string of decimal digits denotes.
ParseDigits(s) ==
    IF Len(s) = 1 THEN DigitValue(s[1])
    ELSE 10 * ParseDigits(SubSeq(s, 1, Len(s) - 1)) + DigitValue(s[Len(s)])

\* What errors='raise' would do with an unparseable cell: a raised ValueError.
RaiseUnparseable == [t |-> "raise", v |-> 0]

\* What errors='coerce' does with an unparseable cell: NaN.
CoerceUnparseable == Missing

\* pd.to_numeric(x, errors='coerce') of one cell.
to_numeric(x) ==
    CASE x.t = "num" -> x
      [] x.t = "nan" -> Missing
      [] x.t = "str" ->
            IF Len(x.v) > 0 /\ \A k \in 1..Len(x.v) : x.v[k] \in {DigitChars[d] : d \in 1..10}
            THEN Num(ParseDigits(x.v))
            ELSE CoerceUnparseable
      [] OTHER -> CoerceUnparseable

\* ----------------------------------------------------------------- columns

\* The list with one column ("guache") left out.
TARGET_COLUMNS_short ==
    << "zhuanghuodan_bianhao", "xiehuodan_bianhao", "siji", "shoujihao",
       "chepaihao",
       "zhuangcheliang(dun)", "xiehuoliang(dun)", "zhuangche_shijian",
       "xiehuo_shijian", "siji_yunfei_danjia",
       "fahuo_danwei_mingcheng", "fahuo_danwei_zhengjianhao",
       "fahuodian_jiancheng", "fahuo(sheng)", "fahuo(shi)",
       "fahuo(qu)", "fahuo_xiangxi_dizhi", "fahuo_lianxiren",
       "fahuo_lianxiren_dianhua",
       "shouhuo_danwei_mingcheng", "shouhuo_danwei_zhengjianhao",
       "shouhuo_dizhi_jiancheng", "shouhuo(sheng)", "shouhuo(shi)",
       "shouhuo(qu)", "shouhuo_xiangxi_dizhi", "shouhuo_lianxiren",
       "shouhuo_lianxiren_dianhua" >>

\* TARGET_COLUMNS as the source writes it (pinyin for the Chinese names).
TARGET_COLUMNS_literal ==
    << "zhuanghuodan_bianhao", "xiehuodan_bianhao", "siji", "shoujihao",
       "chepaihao", "guache",
       "zhuangcheliang(dun)", "xiehuoliang(dun)", "zhuangche_shijian",
       "xiehuo_shijian", "siji_yunfei_danjia",
       "fahuo_danwei_mingcheng", "fahuo_danwei_zhengjianhao",
       "fahuodian_jiancheng", "fahuo(sheng)", "fahuo(shi)",
       "fahuo(qu)", "fahuo_xiangxi_dizhi", "fahuo_lianxiren",
       "fahuo_lianxiren_dianhua",
       "shouhuo_danwei_mingcheng", "shouhuo_danwei_zhengjianhao",
       "shouhuo_dizhi_jiancheng", "shouhuo(sheng)", "shouhuo(shi)",
       "shouhuo(qu)", "shouhuo_xiangxi_dizhi", "shouhuo_lianxiren",
       "shouhuo_lianxiren_dianhua" >>

\* The grouping column the caller passes: "quyu" (region).
group_by_column_fixed == "quyu"

\* The source columns the mapping rules read, other than the grouping column.
LICHENG == "licheng"
DANJIA == "siji_yunshu_danjia(renminbi)"
OtherSourceColumns ==
    { "siji_xingming(shoukuanren)", "siji_shoujihaoma(shoukuanren)", "chepai",
      "zhuangche_shijian", "xiehuo_shijian", "huozhu_mingcheng",
      "siji_zhuanghuo_shuliang" }

\* row.get(col): the cell, or None when the row has no such column.
get(row, col) == IF col \in DOMAIN row THEN row[col] ELSE Missing

\* ------------------------------------------------------------- file names

\* The characters str.isalnum accepts, among the characters of the model:
\* Latin letters, decimal digits and Chinese characters.
AlnumChars ==
    {"A", "B", "f", "x", "l", "s"} \cup {DigitChars[d] : d \in 1..10}
        \cup {"wei4", "ming4", "ming2", "qu1", "yu4"}

isalnum(c) == c \in AlnumChars

\* The characters str.rstrip() with no argument strips.
Whitespace == {" ", "\t", "\n"}

\* A string left as it is.
rstrip_nothing(s) == s

RECURSIVE rstrip(_)
\* s.rstrip()
rstrip(s) ==
    IF s # <<>> /\ s[Len(s)] \in Whitespace THEN rstrip(SubSeq(s, 1, Len(s) - 1))
    ELSE s

RECURSIVE KeepSafe(_)
\* "".join([c for c in s if c.isalnum() or c in (' ', '_', '-')])
KeepSafe(s) ==
    IF s = <<>> THEN <<>>
    ELSE (IF isalnum(Head(s)) \/ Head(s) \in {" ", "_", "-"} THEN <<Head(s)>> ELSE <<>>)
            \o KeepSafe(Tail(s))

\* The fallback prefix (f-string at line 106).
UnnamedPrefix == <<"wei4", "ming4", "ming2", "qu1", "yu4", "_">>

\* safe_filename for the i-th group value (lines 104-106).
safe_filename(group_value, i) ==
    LET kept == rstrip(KeepSafe(str(group_value)))
    IN  IF kept = <<>> THEN UnnamedPrefix \o IntToStr(i) ELSE kept

XlsxSuffix == <<".", "x", "l", "s", "x">>

\* output_filename_in_zip (line 108)
output_filename_in_zip(group_value, i) == safe_filename(group_value, i) \o XlsxSuffix

\* os.path.splitext(name)[0] of a name without directory part: the name up to
\* its last dot, unless only dots precede that dot.
splitext_root(name) ==
    LET dots == {k \in 1..Len(name) : name[k] = "."}
    IN  IF dots = {} THEN name
        ELSE LET last == CHOOSE k \in dots : \A j \in dots : j <= k
             IN  IF \E j \in 1..(last - 1) : name[j] # "."
                 THEN SubSeq(name, 1, last - 1)
                 ELSE name

\* ------------------------------------------------------------------ inputs

\* The grouping values of the sheets: texts that sanitize to themselves, to
\* the same name as another key, or to nothing; a number and the text of the
\* same digits.
GroupValues ==
    { Txt(<<"A">>), Txt(<<"B">>), Txt(<<"A", "/">>), Txt(<<"A", " ">>),
      Txt(<<"/">>), Num(1), Txt(<<"1">>) }

\* The cells every other column of a sheet holds unless a row varies them.
DefaultCells ==
    [c \in OtherSourceColumns \cup {LICHENG, DANJIA} |->
        CASE c = "zhuangche_shijian" -> Ts(2024, 1, 2, 3, 4)
          [] c = "xiehuo_shijian" -> Txt(<<"x">>)
          [] c = "siji_zhuanghuo_shuliang" -> Num(10)
          [] c = LICHENG -> Num(2)
          [] c = DANJIA -> Num(5)
          [] OTHER -> Txt(<<"B">>)]

\* A row: the grouping cell beside the default cells.
KeyRow(g) == [c \in DOMAIN DefaultCells \cup {group_by_column_fixed} |->
                 IF c = group_by_column_fixed THEN g ELSE DefaultCells[c]]

AllSourceColumns == DOMAIN DefaultCells \cup {group_by_column_fixed}

\* Sheets with every column, of up to MaxRows rows, whose grouping cells vary.
KeySheets ==
    UNION { { [columns |-> AllSourceColumns, rows |-> [k \in 1..n |-> KeyRow(gs[k])]] :
                gs \in [1..n -> GroupValues \cup {Missing}] } : n \in 0..MaxRows }

\* The cells a one-row sheet may hold in the mileage and unit-price columns.
LichengCells == {Missing, Num(2), Txt(<<"1", "0">>), Txt(<<"A">>)}
DanjiaCells == {Missing, Num(5), Txt(<<"3">>), Txt(<<"/">>), Ts(2024, 1, 2, 3, 4)}

\* The column sets of the sheets whose columns vary: any of the grouping,
\* mileage and unit-price columns, with all or none of the other columns.
ColumnSets ==
    { three \cup rest : three \in SUBSET {group_by_column_fixed, LICHENG, DANJIA},
                         rest \in {{}, OtherSourceColumns} }

\* The one row a sheet of the given columns may hold.
CellRows(cols) ==
    { [c \in cols |->
          CASE c = group_by_column_fixed -> g
            [] c = LICHENG -> m
            [] c = DANJIA -> p
            [] OTHER -> IF filled THEN DefaultCells[c] ELSE Missing] :
        g \in {Missing, Txt(<<"A">>)}, m \in LichengCells, p \in DanjiaCells,
        filled \in BOOLEAN }

\* Sheets of no row or one row, whose columns and cells vary.
CellSheets ==
    UNION { {[columns |-> cols, rows |-> <<>>]}
                \cup {[columns |-> cols, rows |-> <<r>>] : r \in CellRows(cols)} :
            cols \in ColumnSets }

\* The names of the uploaded file; the uploader accepts only .xlsx names.
FileNames == { <<"f">> \o XlsxSuffix, XlsxSuffix }

\* The uploaded files: a readable workbook, or bytes pd.read_excel rejects.
UploadedFiles ==
    { [name |-> <<"f">> \o XlsxSuffix, readable |-> TRUE, sheet |-> sh] : sh \in KeySheets }
      \cup { [name |-> nm, readable |-> TRUE, sheet |-> sh] :
                nm \in FileNames, sh \in CellSheets }
      \cup { [name |-> nm, readable |-> FALSE, sheet |-> [columns |-> {}, rows |-> <<>>]] :
               nm \in FileNames }

\* ------------------------------------------------------------------- state

VARIABLES
    uploaded_file,      \* the file the uploader holds
    group_by_column,    \* the grouping column the caller passes
    TARGET_COLUMNS,     \* the module-level list
    pc,                 \* where the run stands
    logs,               \* the status lines, in order
    source_filename,    \* the base name of the uploaded file
    df_source,          \* the sheet as read
    new_rows,           \* the mapped rows built so far
    df_target,          \* the mapped frame after reindex
    unique_groups,      \* the distinct non-missing grouping values
    selected,           \* per group written: its value and the row indices selected
    zf,                 \* the entries of the archive under assembly
    exc,                 \* the exception raised, "" when none
    ret,                \* what transform_and_process returned
    ui                  \* what the page shows after the button

vars == << uploaded_file, group_by_column, TARGET_COLUMNS, pc, logs, source_filename,
           df_source, new_rows, df_target, unique_groups, selected, zf, exc, ret, ui >>

\* A status line; the fields a kind of line does not use are empty.
Line(kind, i, n, name, src, tgt) ==
    [kind |-> kind, i |-> i, n |-> n, name |-> name, src |-> src, tgt |-> tgt]

\* log_message(message): append to logs (the container redraws them all).
log_message(ls, line) == Append(ls, line)

NoFrame == [columns |-> <<>>, rows |-> <<>>]
NoSheet == [columns |-> {}, rows |-> <<>>]
NotReturned == [state |-> "running", zip_buffer |-> <<>>, source_filename |-> <<>>]

Init ==
    /\ uploaded_file \in UploadedFiles
    /\ group_by_column = group_by_column_fixed
    /\ TARGET_COLUMNS = TARGET_COLUMNS_literal
    /\ pc = "ready"
    /\ logs = <<>>
    /\ source_filename = <<>>
    /\ df_source = NoSheet
    /\ new_rows = <<>>
    /\ df_target = NoFrame
    /\ unique_groups = <<>>
    /\ selected = <<>>
    /\ zf = <<>>
    /\ exc = ""
    /\ ret = NotReturned
    /\ ui = [success |-> FALSE, download |-> FALSE, error |-> FALSE, file_name |-> <<>>]

\* ----------------------------------------------------------------- mapping

\* The time rule (lines 54-59): a timestamp is formatted, anything else passes.
format_time(time_val) ==
    IF notna(time_val) /\ time_val.t = "ts" THEN strftime(time_val) ELSE time_val

\* What a row without the carrier assignment would carry: nothing.
carrier_dropped(row, g) == Missing

\* new_row[group_by_column] = row.get(group_by_column) (line 83)
carrier(row, g) == get(row, g)

\* The derived tariff (lines 76-81), or the raise marker of a failed coercion.
tariff(row) ==
    LET licheng == to_numeric(get(row, LICHENG))
        danjia == to_numeric(get(row, DANJIA))
    IN  IF licheng.t = "raise" \/ danjia.t = "raise" THEN RaiseUnparseable
        ELSE IF notna(licheng) /\ notna(danjia) THEN Num(licheng.v * danjia.v)
        ELSE Missing

\* The keys the mapping rules assign, in the order of their first assignment.
MappedKeys ==
    << "siji", "shoujihao", "chepaihao", "zhuangche_shijian", "xiehuo_shijian",
       "shouhuo_danwei_mingcheng", "shouhuo_dizhi_jiancheng", "shouhuo_lianxiren",
       "zhuangcheliang(dun)", "xiehuoliang(dun)", "siji_yunfei_danjia" >>

Range(s) == {s[k] : k \in 1..Len(s)}

\* new_row of one source row (lines 47-83); the carrier is assigned last.
map_row(row, g) ==
    [c \in Range(MappedKeys) \cup {g} |->
        CASE c = g -> carrier(row, g)
          [] c = "siji" -> get(row, "siji_xingming(shoukuanren)")
          [] c = "shoujihao" -> get(row, "siji_shoujihaoma(shoukuanren)")
          [] c = "chepaihao" -> get(row, "chepai")
          [] c \in {"zhuangche_shijian", "xiehuo_shijian"} -> format_time(get(row, c))
          [] c \in {"shouhuo_danwei_mingcheng", "shouhuo_dizhi_jiancheng",
                    "shouhuo_lianxiren"} -> get(row, "huozhu_mingcheng")
          [] c \in {"zhuangcheliang(dun)", "xiehuoliang(dun)"} ->
                get(row, "siji_zhuanghuo_shuliang")
          [] OTHER -> tariff(row)]

\* pd.DataFrame(new_rows).reindex(columns=cols): the named columns in order,
\* a column no row has filled with missing values (lines 86-87).
reindex(rows, cols) ==
    [columns |-> cols,
     rows |-> [k \in 1..Len(rows) |-> [c \in Range(cols) |-> get(rows[k], c)]]]

\* -------------------------------------------------------------- partition

\* Elementwise == of a cell and a group value: NaN equals nothing, and a
\* number never equals a text.
eq(a, b) == a.t = b.t /\ notna(a) /\ a.v = b.v

RECURSIVE unique_reversed(_)
\* The distinct non-missing values, last seen first.
unique_reversed(cells) ==
    IF cells = <<>> THEN <<>>
    ELSE LET h == cells[Len(cells)]
             rest == SubSeq(cells, 1, Len(cells) - 1)
             later == unique_reversed(SelectSeq(rest, LAMBDA x : ~eq(x, h)))
         IN  IF notna(h) THEN <<h>> \o later ELSE later

RECURSIVE unique(_)
\* series.dropna().unique(): the distinct non-missing values in the order of
\* their first appearance (line 92).
unique(cells) ==
    IF cells = <<>> THEN <<>>
    ELSE LET h == Head(cells)
             later == unique(SelectSeq(Tail(cells), LAMBDA x : ~eq(x, h)))
         IN  IF notna(h) THEN <<h>> \o later ELSE later

\* The column of a frame as a sequence of cells.
column(rows, g) == [k \in 1..Len(rows) |-> rows[k][g]]

\* The positions of the rows whose cell has the string form of the value.
mask_by_str(rows, g, value) ==
    {k \in 1..Len(rows) : notna(rows[k][g]) /\ str(rows[k][g]) = str(value)}

\* frame[frame[g] == value]: the positions of the rows selected (lines 98, 101).
mask(rows, g, value) == {k \in 1..Len(rows) : eq(rows[k][g], value)}

RECURSIVE take(_, _, _)
\* The rows at the positions of a set, in frame order, from position k on.
take(rows, idx, k) ==
    IF k > Len(rows) THEN <<>>
    ELSE (IF k \in idx THEN <<rows[k]>> ELSE <<>>) \o take(rows, idx, k + 1)

\* What the frame would be were the carrier column kept.
drop_nothing(frame, g) == frame

\* frame.drop(columns=[g]) (line 102)
drop(frame, g) ==
    LET cols == SelectSeq(frame.columns, LAMBDA c : c # g)
    IN  [columns |-> cols,
         rows |-> [k \in 1..Len(frame.rows) |-> [c \in Range(cols) |-> frame.rows[k][c]]]]

\* ----------------------------------------------------------------- actions

\* The suffix of the download's file name (line 163).
ZipSuffix == <<"_", "an4", "qu1", "yu4", "chai1", "fen1", ".", "z", "i", "p">>

\* What a handler returning the archive built so far would return.
except_return_partial(z, nm) ==
    [state |-> "ok", zip_buffer |-> z, source_filename |-> nm]

\* return None, None (line 127)
except_return(z, nm) == [state |-> "none", zip_buffer |-> <<>>, source_filename |-> <<>>]

\* The button is pressed (lines 151-154): the run starts.
ClickStart ==
    /\ pc = "ready"
    /\ pc' = "read"
    /\ UNCHANGED << uploaded_file, group_by_column, TARGET_COLUMNS, logs, source_filename,
                    df_source, new_rows, df_target, unique_groups, selected, zf, exc,
                    ret, ui >>

\* Lines 36-43: the base name, pd.read_excel, the first three status lines.
ReadExcel ==
    /\ pc = "read"
    /\ source_filename' = splitext_root(uploaded_file.name)
    /\ IF uploaded_file.readable
       THEN /\ df_source' = uploaded_file.sheet
            /\ logs' = log_message(log_message(log_message(logs,
                           Line("prepare", 0, 0, uploaded_file.name, 0, 0)),
                           Line("read", 0, Len(uploaded_file.sheet.rows), <<>>, 0, 0)),
                           Line("map_start", 0, 0, <<>>, 0, 0))
            /\ pc' = "map"
            /\ exc' = exc
       ELSE /\ df_source' = df_source
            /\ logs' = log_message(logs, Line("prepare", 0, 0, uploaded_file.name, 0, 0))
            /\ pc' = "except"
            /\ exc' = "BadZipFile"
    /\ UNCHANGED << uploaded_file, group_by_column, TARGET_COLUMNS, new_rows, df_target,
                    unique_groups, selected, zf, ret, ui >>

\* Lines 46-84: one turn of the iterrows loop.
MapRow ==
    /\ pc = "map"
    /\ Len(new_rows) < Len(df_source.rows)
    /\ LET row == df_source.rows[Len(new_rows) + 1]
       IN  IF tariff(row).t = "raise"
           THEN /\ pc' = "except"
                /\ exc' = "ValueError"
                /\ new_rows' = new_rows
           ELSE /\ new_rows' = Append(new_rows, map_row(row, group_by_column))
                /\ UNCHANGED << pc, exc >>
    /\ UNCHANGED << uploaded_file, group_by_column, TARGET_COLUMNS, logs, source_filename,
                    df_source, df_target, unique_groups, selected, zf, ret, ui >>

\* Lines 86-93: the target frame, two status lines, the distinct groups, the
\* line that counts them.  df_source[group_by_column] raises KeyError when
\* the sheet has no such column.
BuildTarget ==
    /\ pc = "map"
    /\ Len(new_rows) = Len(df_source.rows)
    /\ df_target' = reindex(new_rows, TARGET_COLUMNS \o <<group_by_column>>)
    /\ IF group_by_column \in df_source.columns
       THEN LET groups == unique(column(df_source.rows, group_by_column))
            IN  /\ unique_groups' = groups
                /\ logs' = log_message(log_message(log_message(logs,
                               Line("map_done", 0, 0, <<>>, 0, 0)),
                               Line("separator", 0, 0, <<>>, 0, 0)),
                               Line("found", 0, Len(groups), <<>>, 0, 0))
                /\ pc' = "export"
                /\ exc' = exc
       ELSE /\ unique_groups' = unique_groups
            /\ logs' = log_message(log_message(logs,
                           Line("map_done", 0, 0, <<>>, 0, 0)),
                           Line("separator", 0, 0, <<>>, 0, 0))
            /\ pc' = "except"
            /\ exc' = "KeyError"
    /\ UNCHANGED << uploaded_file, group_by_column, TARGET_COLUMNS, source_filename,
                    df_source, new_rows, selected, zf, ret, ui >>

\* Lines 97-114: the i-th group is selected from both frames, named,
\* serialized and written to the archive.
WriteGroup ==
    /\ pc = "export"
    /\ Len(zf) < Len(unique_groups)
    /\ LET i == Len(zf) + 1
           group_value == unique_groups[i]
           source_index == mask(df_source.rows, group_by_column, group_value)
           target_index == mask(df_target.rows, group_by_column, group_value)
           target_group_df == [columns |-> df_target.columns,
                               rows |-> take(df_target.rows, target_index, 1)]
           final_df_to_save == drop(target_group_df, group_by_column)
       IN  /\ selected' = Append(selected,
                              [group_value |-> group_value,
                               source_index |-> source_index,
                               target_index |-> target_index,
                               source_group_rows |-> Cardinality(source_index)])
           /\ zf' = Append(zf, [name |-> output_filename_in_zip(group_value, i),
                                columns |-> final_df_to_save.columns,
                                rows |-> final_df_to_save.rows])
    /\ pc' = "export_log"
    /\ UNCHANGED << uploaded_file, group_by_column, TARGET_COLUMNS, logs, source_filename,
                    df_source, new_rows, df_target, unique_groups, exc, ret, ui >>

\* Lines 116-117: the status line of the group just written.
LogGroup ==
    /\ pc = "export_log"
    /\ LET i == Len(zf)
       IN  logs' = log_message(logs,
                       Line("group", i, Len(unique_groups), zf[i].name,
                            selected[i].source_group_rows, Len(zf[i].rows)))
    /\ pc' = "export"
    /\ UNCHANGED << uploaded_file, group_by_column, TARGET_COLUMNS, source_filename,
                    df_source, new_rows, df_target, unique_groups, selected, zf, exc,
                    ret, ui >>

\* Lines 119-122: the loop is over; the completion lines and the return.
Finish ==
    /\ pc = "export"
    /\ Len(zf) = Len(unique_groups)
    /\ logs' = log_message(log_message(logs,
                   Line("separator", 0, 0, <<>>, 0, 0)),
                   Line("done", 0, 0, <<>>, 0, 0))
    /\ ret' = [state |-> "ok", zip_buffer |-> zf, source_filename |-> source_filename]
    /\ pc' = "returned"
    /\ UNCHANGED << uploaded_file, group_by_column, TARGET_COLUMNS, source_filename,
                    df_source, new_rows, df_target, unique_groups, selected, zf, exc, ui >>

\* A call inside the try block raises (line 35): the disk, the memory or a
\* library fails while reading, mapping, selecting or serializing.
RaiseException ==
    /\ pc \in {"read", "map", "export", "export_log"}
    /\ pc' = "except"
    /\ exc' = "Exception"
    /\ UNCHANGED << uploaded_file, group_by_column, TARGET_COLUMNS, logs, source_filename,
                    df_source, new_rows, df_target, unique_groups, selected, zf, ret, ui >>

\* Lines 124-127: the handler shows the error, logs it and returns.
Except ==
    /\ pc = "except"
    /\ ui' = [ui EXCEPT !.error = TRUE]
    /\ logs' = log_message(logs, Line("error", 0, 0, <<>>, 0, 0))
    /\ ret' = except_return(zf, source_filename)
    /\ pc' = "returned"
    /\ UNCHANGED << uploaded_file, group_by_column, TARGET_COLUMNS, source_filename,
                    df_source, new_rows, df_target, unique_groups, selected, zf, exc >>

\* Lines 156-166: the caller shows the success message and the download
\* button when both returned values are truthy.
ShowResult ==
    /\ pc = "returned"
    /\ IF ret.state = "ok" /\ ret.source_filename # <<>>
       THEN ui' = [ui EXCEPT !.success = TRUE, !.download = TRUE,
                             !.file_name = ret.source_filename \o ZipSuffix]
       ELSE ui' = ui
    /\ pc' = "shown"
    /\ UNCHANGED << uploaded_file, group_by_column, TARGET_COLUMNS, logs, source_filename,
                    df_source, new_rows, df_target, unique_groups, selected, zf, exc, ret >>

Next ==
    \/ ClickStart
    \/ ReadExcel
    \/ MapRow
    \/ BuildTarget
    \/ WriteGroup
    \/ LogGroup
    \/ Finish
    \/ RaiseException
    \/ Except
    \/ ShowResult

Spec == Init /\ [][Next]_vars

\* ------------------------------------------------------------- properties

Returned == pc \in {"returned", "shown"}
Succeeded == Returned /\ ret.state = "ok"

\* The positions of the source rows whose grouping cell is not missing.
NonMissingRows ==
    {k \in 1..Len(df_source.rows) :
        group_by_column \in df_source.columns /\ notna(df_source.rows[k][group_by_column])}

\* C1: the file names of the entries written to the archive are pairwise
\* distinct.
C1_EntryNamesDistinct ==
    \A a, b \in 1..Len(zf) : a # b => zf[a].name # zf[b].name

\* C2: a readable sheet without the grouping column, in a run no library
\* call fails, returns an archive of zero entries with the source base name.
C2_AbsentColumnEmptyArchive ==
    (/\ Returned
     /\ uploaded_file.readable
     /\ group_by_column \notin uploaded_file.sheet.columns
     /\ exc # "Exception")
    => (/\ ret.state = "ok"
        /\ ret.zip_buffer = <<>>
        /\ ret.source_filename = splitext_root(uploaded_file.name))

\* C3: the index sets selected for the groups are pairwise disjoint and hold
\* only rows with a non-missing grouping cell; after a successful run their
\* union is the set of all such rows.
C3_Partition ==
    /\ \A a, b \in 1..Len(selected) :
          a # b => /\ selected[a].group_value # selected[b].group_value
                   /\ selected[a].source_index \cap selected[b].source_index = {}
                   /\ selected[a].target_index \cap selected[b].target_index = {}
    /\ \A a \in 1..Len(selected) :
          /\ selected[a].source_index \subseteq NonMissingRows
          /\ selected[a].target_index \subseteq NonMissingRows
    /\ Succeeded =>
          /\ UNION {selected[a].source_index : a \in 1..Len(selected)} = NonMissingRows
          /\ UNION {selected[a].target_index : a \in 1..Len(selected)} = NonMissingRows

\* C3 witness: a finished run with two groups and a row left in no group.
C3_Witness ==
    /\ Succeeded
    /\ Len(selected) >= 2
    /\ NonMissingRows # 1..Len(df_source.rows)

RECURSIVE SumRows(_)
\* The rows of the entries of an archive, summed.
SumRows(entries) ==
    IF entries = <<>> THEN 0 ELSE Len(Head(entries).rows) + SumRows(Tail(entries))

\* C4: every entry has as many rows as its group has source rows, every
\* group line reports equal counts, and after a successful run the entries'
\* rows sum to the number of mapped records with a non-missing grouping value.
C4_RowCountConservation ==
    /\ \A a \in 1..Len(zf) : Len(zf[a].rows) = selected[a].source_group_rows
    /\ \A k \in 1..Len(logs) : logs[k].kind = "group" => logs[k].src = logs[k].tgt
    /\ Succeeded =>
          SumRows(zf) = Cardinality({k \in 1..Len(new_rows) :
                                        notna(new_rows[k][group_by_column])})

\* C4 witness: three source rows, one with a missing grouping value, give
\* entries of two rows in all.
C4_Witness ==
    /\ Succeeded
    /\ Len(df_source.rows) = 3
    /\ Cardinality(NonMissingRows) = 2
    /\ SumRows(zf) = 2

\* C5: once an exception is raised the run only handles it; it returns
\* (None, None), the error line is the last status line, no completion line
\* is among the status lines, and the page shows neither the success message
\* nor the download button.
C5_AllOrNone ==
    exc # "" =>
        /\ pc \in {"except", "returned", "shown"}
        /\ \A k \in 1..Len(logs) : logs[k].kind # "done"
        /\ ~ui.success
        /\ ~ui.download
        /\ Returned => /\ ret.state = "none"
                       /\ ret.zip_buffer = <<>>
                       /\ ret.source_filename = <<>>
                       /\ logs # <<>>
                       /\ logs[Len(logs)].kind = "error"

\* C5 witness: a run that failed after a group was written, back at the page.
C5_Witness ==
    /\ pc = "shown"
    /\ exc = "Exception"
    /\ Len(zf) >= 1

PairwiseDistinct(s) == \A a, b \in 1..Len(s) : a # b => s[a] # s[b]

\* C7 as stated: TARGET_COLUMNS is a list of 28 pairwise distinct names that
\* no step modifies.
C7_TargetColumns28 ==
    /\ Len(TARGET_COLUMNS) = 28
    /\ PairwiseDistinct(TARGET_COLUMNS)
    /\ TARGET_COLUMNS = TARGET_COLUMNS_literal

\* C7 as amended: TARGET_COLUMNS is a list of 29 pairwise distinct names
\* that no step modifies.
C7_TargetColumns29 ==
    /\ Len(TARGET_COLUMNS) = 29
    /\ PairwiseDistinct(TARGET_COLUMNS)
    /\ TARGET_COLUMNS = TARGET_COLUMNS_literal

\* C7 witness: a run that used the list to write an entry and returned.
C7_Witness ==
    /\ pc = "shown"
    /\ ret.state = "ok"
    /\ Len(zf) >= 1

\* A cell that holds a number or the decimal digits of one.
IsNumericCell(x) ==
    \/ x.t = "num"
    \/ x.t = "str" /\ \E n \in 0..99 : IntToStr(n) = x.v

\* The number such a cell holds.
NumberOf(x) == IF x.t = "num" THEN x.v ELSE CHOOSE n \in 0..99 : IntToStr(n) = x.v

\* C8: the tariff of every mapped record is mileage times unit price when
\* both cells are numeric and missing otherwise, and no cell makes the
\* mapping raise.
C8_DerivedTariff ==
    /\ exc \notin {"ValueError", "TypeError"}
    /\ \A k \in 1..Len(new_rows) :
          LET m == get(df_source.rows[k], LICHENG)
              p == get(df_source.rows[k], DANJIA)
          IN  new_rows[k]["siji_yunfei_danjia"] =
                  IF IsNumericCell(m) /\ IsNumericCell(p)
                  THEN Num(NumberOf(m) * NumberOf(p))
                  ELSE Missing

\* C8 witness: a finished run over a row whose mileage is a text that is no
\* number and whose unit price is the text of a number.
C8_Witness ==
    /\ Succeeded
    /\ Len(new_rows) = 1
    /\ get(df_source.rows[1], LICHENG) = Txt(<<"A">>)
    /\ get(df_source.rows[1], DANJIA) = Txt(<<"3">>)

\* The characters a file name may keep.
SafeChar(c) == isalnum(c) \/ c \in {" ", "_", "-"}

\* A string up to its last character that is no whitespace.
TrimRight(s) ==
    LET solid == {k \in 1..Len(s) : s[k] \notin Whitespace}
    IN  IF solid = {} THEN <<>>
        ELSE SubSeq(s, 1, CHOOSE k \in solid : \A j \in solid : j <= k)

\* C9: the name of every entry is a stem and the .xlsx suffix; the stem is
\* not empty, holds only safe characters, ends in no whitespace, and is the
\* key's string form with the other characters dropped and the trailing
\* whitespace trimmed, or the fallback prefix and the group's number when
\* that is empty.
C9_FilenameSafety ==
    \A a \in 1..Len(zf) :
        LET name == zf[a].name
            stem == SubSeq(name, 1, Len(name) - Len(XlsxSuffix))
            kept == TrimRight(SelectSeq(str(selected[a].group_value), SafeChar))
        IN  /\ Len(name) > Len(XlsxSuffix)
            /\ name = stem \o XlsxSuffix
            /\ \A k \in 1..Len(stem) : SafeChar(stem[k])
            /\ stem[Len(stem)] \notin Whitespace
            /\ stem = IF kept # <<>> THEN kept ELSE UnnamedPrefix \o IntToStr(a)

\* C9 witness: an archive with an entry named by the fallback and an entry
\* whose key ended in a space.
C9_Witness ==
    /\ \E a \in 1..Len(zf) : selected[a].group_value = Txt(<<"/">>)
    /\ \E a \in 1..Len(zf) : selected[a].group_value = Txt(<<"A", " ">>)

\* The position of the first source row that holds a grouping value.
FirstSeen(value) ==
    CHOOSE k \in 1..Len(df_source.rows) :
        /\ df_source.rows[k][group_by_column] = value
        /\ \A j \in 1..(k - 1) : df_source.rows[j][group_by_column] # value

\* The status lines of a kind.
LinesOf(kind) == SelectSeq(logs, LAMBDA l : l.kind = kind)

\* C10: groups are written in the order of their first appearance; the
\* i-th group line follows the i-th entry and precedes the next entry; a
\* successful run writes one entry per distinct non-missing value, and its
\* status lines are the six opening lines, the group lines 1..N in order,
\* the separator and the completion line.
C10_FirstSeenOrder ==
    /\ \A a, b \in 1..Len(selected) :
          a < b => FirstSeen(selected[a].group_value) < FirstSeen(selected[b].group_value)
    /\ Len(selected) = Len(zf)
    /\ Len(LinesOf("group")) \in {Len(zf) - 1, Len(zf)}
    /\ pc = "export_log" => Len(LinesOf("group")) = Len(zf) - 1
    /\ pc = "export" => Len(LinesOf("group")) = Len(zf)
    /\ \A k \in 1..Len(LinesOf("group")) :
          /\ LinesOf("group")[k].i = k
          /\ LinesOf("group")[k].name = zf[k].name
    /\ Succeeded =>
          LET N == Cardinality({df_source.rows[k][group_by_column] : k \in NonMissingRows})
          IN  /\ Len(zf) = N
              /\ Len(logs) = N + 8
              /\ [k \in 1..6 |-> logs[k].kind] =
                    <<"prepare", "read", "map_start", "map_done", "separator", "found">>
              /\ \A k \in 1..N : logs[6 + k].kind = "group" /\ logs[6 + k].n = N
              /\ logs[N + 7].kind = "separator"
              /\ logs[N + 8].kind = "done"

\* C10 witness: a finished run whose first group is "B" and second is "A".
C10_Witness ==
    /\ Succeeded
    /\ Len(zf) = 2
    /\ selected[1].group_value = Txt(<<"B">>)
    /\ selected[2].group_value = Txt(<<"A">>)

====
